---------------------------- MODULE Spec2Model ----------------------------
(***************************************************************************)
(* The custom-error-pages default backend: errorHandler, the Accept        *)
(* negotiation (parseAcceptHeader, selectFormat) and the request metrics.  *)
(*                                                                         *)
(* The repository carries two evolutions of errorHandler:                  *)
(*   "rootfs"  : images/custom-error-pages/rootfs/main.go                  *)
(*   "unnamed" : unnamed/part_000 (the Accept-aware handler)               *)
(* The variable build says which one is registered at "/".                 *)
(*                                                                         *)
(* Strings are sequences of one-character strings, so that HasPrefix,      *)
(* Index, Split, Atoi, Itoa and Sprintf are computed and not assumed.      *)
(***************************************************************************)
EXTENDS Integers, Sequences, FiniteSets, TLC

VARIABLES build, defaultFormat, defaultExt, debug, files,
          req, requestCount, requestDuration, completed, arrived

vars == <<build, defaultFormat, defaultExt, debug, files,
          req, requestCount, requestDuration, completed, arrived>>

env == <<build, defaultFormat, defaultExt, debug, files>>

(***************************************************************************)
(* Bounds of the model.                                                    *)
(***************************************************************************)
\* requests handled in one behaviour
MaxRequests == 2
\* requests handled concurrently (SpecConc)
MaxInFlight == 2
\* comma-separated entries of an enumerated Accept header
MaxTokens == 2

(***************************************************************************)
(* String literals.                                                        *)
(***************************************************************************)
Empty == << >>
TextHtml == <<"t","e","x","t","/","h","t","m","l">>
AppJson == <<"a","p","p","l","i","c","a","t","i","o","n","/","j","s","o","n">>
ImagePng == <<"i","m","a","g","e","/","p","n","g">>
FooBar == <<"f","o","o","/","b","a","r">>
TextHtmlUtf8 == TextHtml \o <<";"," ","c","h","a","r","s","e","t","=","u","t","f","-","8">>
TextPlainUtf8 == <<"t","e","x","t","/","p","l","a","i","n",";"," ","c","h","a","r","s","e","t","=","u","t","f","-","8">>
DotHtm == <<".","h","t","m">>
DotHtml == <<".","h","t","m","l">>
DotJson == <<".","j","s","o","n">>
QMarker == <<";","q","=">>
Digits == <<"0","1","2","3","4","5","6","7","8","9">>
Protos == {"1.1", "2.0"}

IsDigit(c) == \E i \in 1..10 : Digits[i] = c

DigitVal(c) == (CHOOSE i \in 1..10 : Digits[i] = c) - 1

(***************************************************************************)
(* package strings                                                         *)
(***************************************************************************)
HasPrefix(s, prefix) ==
    /\ Len(s) >= Len(prefix)
    /\ SubSeq(s, 1, Len(prefix)) = prefix

\* strings.Index: the 0-based position of the first occurrence, -1 if none
Index(s, substr) ==
    LET hits == {i \in 1..(Len(s) - Len(substr) + 1) :
                    SubSeq(s, i, i + Len(substr) - 1) = substr}
    IN  IF hits = {} THEN -1
        ELSE (CHOOSE i \in hits : \A j \in hits : i <= j) - 1

IsSpace(c) == c \in {" ", "\t", "\n", "\r"}

RECURSIVE TrimLeft(_)
TrimLeft(s) ==
    IF s # Empty /\ IsSpace(Head(s)) THEN TrimLeft(Tail(s)) ELSE s

RECURSIVE TrimRight(_)
TrimRight(s) ==
    IF s # Empty /\ IsSpace(s[Len(s)])
    THEN TrimRight(SubSeq(s, 1, Len(s) - 1)) ELSE s

TrimSpace(s) == TrimRight(TrimLeft(s))

\* strings.Split(s, ","): always at least one part, "" splits into <<"">>
RECURSIVE Split(_, _)
Split(s, sep) ==
    LET i == Index(s, <<sep>>)
    IN  IF i = -1 THEN <<s>>
        ELSE <<SubSeq(s, 1, i)>> \o Split(SubSeq(s, i + 2, Len(s)), sep)

(***************************************************************************)
(* package strconv                                                         *)
(***************************************************************************)
RECURSIVE DigitsValue(_, _)
DigitsValue(s, acc) ==
    IF s = Empty THEN acc
    ELSE DigitsValue(Tail(s), acc * 10 + DigitVal(Head(s)))

AllDigits(s) == \A i \in 1..Len(s) : IsDigit(s[i])

\* strconv.Atoi: an optional sign and at least one decimal digit
Atoi(s) ==
    LET signed == s # Empty /\ Head(s) \in {"+", "-"}
        body == IF signed THEN Tail(s) ELSE s
    IN  IF body = Empty \/ ~AllDigits(body)
        THEN [err |-> TRUE, val |-> 0]
        ELSE [err |-> FALSE,
              val |-> IF signed /\ Head(s) = "-"
                      THEN 0 - DigitsValue(body, 0)
                      ELSE DigitsValue(body, 0)]

RECURSIVE NatDigits(_)
NatDigits(n) ==
    IF n < 10 THEN <<Digits[n + 1]>>
    ELSE NatDigits(n \div 10) \o <<Digits[(n % 10) + 1]>>

\* strconv.Itoa, and the %v verb of fmt.Sprintf applied to an int
Itoa(n) == IF n < 0 THEN <<"-">> \o NatDigits(0 - n) ELSE NatDigits(n)

\* strconv.ParseFloat(s, 64) for plain decimal literals ([sign] digits
\* [. digits], at most three fractional digits); the value is in thousandths.
\* Exponent, hexadecimal, inf and nan spellings are not among the inputs.
ParseFloat(s) ==
    LET signed == s # Empty /\ Head(s) \in {"+", "-"}
        body == IF signed THEN Tail(s) ELSE s
        dot == Index(body, <<".">>)
        int == IF dot = -1 THEN body ELSE SubSeq(body, 1, dot)
        frac == IF dot = -1 THEN Empty ELSE SubSeq(body, dot + 2, Len(body))
        scale == IF Len(frac) = 0 THEN 1000 ELSE IF Len(frac) = 1 THEN 100
                 ELSE IF Len(frac) = 2 THEN 10 ELSE 1
        mag == DigitsValue(int, 0) * 1000 + DigitsValue(frac, 0) * scale
    IN  IF \/ int \o frac = Empty
           \/ ~AllDigits(int) \/ ~AllDigits(frac) \/ Len(frac) > 3
        THEN [err |-> TRUE, val |-> 0]
        ELSE [err |-> FALSE,
              val |-> IF signed /\ Head(s) = "-" THEN 0 - mag ELSE mag]

(***************************************************************************)
(* package mime                                                            *)
(***************************************************************************)
\* the type without its parameters, as mime.ParseMediaType returns it
JustType(typ) ==
    LET i == Index(typ, <<";">>)
    IN  TrimSpace(IF i = -1 THEN typ ELSE SubSeq(typ, 1, i))

\* mime.ExtensionsByType over the built-in table: the sorted extensions of
\* the type, none for a type the table does not know
ExtensionsByType(typ) ==
    LET justType == JustType(typ)
    IN  IF justType = TextHtml THEN <<DotHtm, DotHtml>>
        ELSE IF justType = AppJson THEN <<DotJson>>
        ELSE << >>

(***************************************************************************)
(* parseAcceptHeader and selectFormat (unnamed/part_000)                   *)
(***************************************************************************)
\* the (mediaType, quality) pair of one comma-separated part
ParsePart(rawPart) ==
    LET part == TrimSpace(rawPart)
        qIndex == Index(part, QMarker)
        q == ParseFloat(SubSeq(part, qIndex + 4, Len(part)))
    IN  IF qIndex = -1 THEN [mediaType |-> part, quality |-> 1000]
        ELSE [mediaType |-> SubSeq(part, 1, qIndex),
              quality |-> IF q.err THEN 1000 ELSE q.val]

TypeQualityPairs(header) ==
    LET parts == Split(header, ",")
    IN  [i \in 1..Len(parts) |-> ParsePart(parts[i])]

Orderings(n) ==
    {p \in [1..n -> 1..n] : \A i, j \in 1..n : i # j => p[i] # p[j]}

\* sort.Slice with less(i, j) == quality[i] > quality[j]. sort.Slice is not
\* a stable sort: every arrangement with no entry of higher quality after
\* one of lower quality is a result it may produce.
SortSlice(pairs) ==
    {[i \in 1..Len(pairs) |-> pairs[p[i]]] : p \in
        {p \in Orderings(Len(pairs)) :
            \A i, j \in 1..Len(pairs) :
                i < j => ~(pairs[p[j]].quality > pairs[p[i]].quality)}}

\* the orders of media types parseAcceptHeader may return
parseAcceptHeader(header) ==
    {[i \in 1..Len(sorted) |-> sorted[i].mediaType] :
        sorted \in SortSlice(TypeQualityPairs(header))}

RECURSIVE selectFormat(_, _)
selectFormat(mediaTypes, default) ==
    IF mediaTypes = << >>
    THEN [format |-> default, ext |-> ExtensionsByType(default)[1]]
    ELSE IF /\ Head(mediaTypes) \in {AppJson, TextHtml}
            /\ Len(ExtensionsByType(Head(mediaTypes))) > 0
         THEN [format |-> Head(mediaTypes),
               ext |-> ExtensionsByType(Head(mediaTypes))[1]]
         ELSE selectFormat(Tail(mediaTypes), default)

(***************************************************************************)
(* net/http: the ResponseWriter of one request.                            *)
(*   header      : the Content-Type of the handler's header map            *)
(*   wroteHeader : the status line and headers have been sent              *)
(*   status, sent: the status code and the Content-Type that were sent     *)
(*   body        : the body bytes written so far                           *)
(*   superfluous : WriteHeader calls made after the status line was sent   *)
(***************************************************************************)
NoHeader == <<"-">>

NewResponseWriter ==
    [header |-> NoHeader, wroteHeader |-> FALSE, status |-> 0,
     sent |-> NoHeader, body |-> Empty, superfluous |-> 0]

\* w.Header().Set("Content-Type", value)
HeaderSet(w, value) == [w EXCEPT !.header = value]

\* WriteHeader panics on a code outside 100..999
ValidWriteHeaderCode(code) == code >= 100 /\ code <= 999

\* w.WriteHeader(code) for a valid code: the first call sends the status
\* line with a snapshot of the header map, a later call is ignored
WriteHeader(w, code) ==
    IF w.wroteHeader THEN [w EXCEPT !.superfluous = @ + 1]
    ELSE [w EXCEPT !.wroteHeader = TRUE, !.status = code, !.sent = w.header]

\* w.Write(bytes): sends the status line with 200 when none was sent
Write(w, bytes) ==
    LET w1 == IF w.wroteHeader THEN w ELSE WriteHeader(w, 200)
    IN  [w1 EXCEPT !.body = @ \o bytes]

NotFoundBody == <<"4","0","4"," ","p","a","g","e"," ","n","o","t"," ","f","o","u","n","d","\n">>

\* http.NotFound(w, r), that is http.Error(w, "404 page not found", 404)
NotFound(w) ==
    Write(WriteHeader(HeaderSet(w, TextPlainUtf8), 404), NotFoundBody)

(***************************************************************************)
(* errorHandler: the pure steps                                            *)
(***************************************************************************)
\* ExplicitFormat without the reset of format to the default format
ExplicitFormatKeepsHeader(format, default) ==
    LET cext == ExtensionsByType(format)
    IN  IF Len(cext) > 0 THEN [format |-> format, ext |-> cext[1]]
        ELSE [format |-> format, ext |-> ExtensionsByType(default)[1]]

\* part_000, the branch of a present X-Format header
ExplicitFormat(format, default) ==
    LET cext == ExtensionsByType(format)
    IN  IF Len(cext) > 0 THEN [format |-> format, ext |-> cext[1]]
        ELSE [format |-> default, ext |-> ExtensionsByType(default)[1]]

\* main.go: X-Format or the default format, looked up in the mime table
RootfsFormat(header, default, dext) ==
    LET format == IF header = Empty THEN default ELSE header
        cext == ExtensionsByType(format)
    IN  IF Len(cext) = 0 THEN [format |-> default, ext |-> dext]
        ELSE [format |-> format, ext |-> cext[1]]

\* UnnamedCode that keeps the zero Atoi returns with its error
UnnamedCodeKeepsZero(header) ==
    LET codeStr == IF header = Empty THEN <<"4","0","4">> ELSE header
    IN  Atoi(codeStr).val

\* part_000: X-Code, "404" when it is empty, 404 when Atoi fails
UnnamedCode(header) ==
    LET codeStr == IF header = Empty THEN <<"4","0","4">> ELSE header
        parsed == Atoi(codeStr)
    IN  IF parsed.err THEN 404 ELSE parsed.val

\* main.go: Atoi of X-Code, 404 when it fails
RootfsCode(header) ==
    LET parsed == Atoi(header)
    IN  IF parsed.err THEN 404 ELSE parsed.val

\* NormalizeExt without the .htm special case
NormalizeExtNoHtm(ext) ==
    IF ~HasPrefix(ext, <<".">>) THEN <<".">> \o ext ELSE ext

\* the leading dot and the .htm special case
NormalizeExt(ext) ==
    LET dotted == IF ~HasPrefix(ext, <<".">>) THEN <<".">> \o ext ELSE ext
    IN  IF dotted = DotHtm THEN DotHtml ELSE dotted

\* fmt.Sprintf("%v/%v%v", path, code, ext), as a name inside path
ExactFile(code, ext) == Itoa(code) \o ext

\* fmt.Sprintf("%v/%cxx%v", path, scode[0], ext), as a name inside path
WildcardFile(code, ext) == <<Itoa(code)[1], "x", "x">> \o ext

\* the bytes io.Copy reads from an opened file
FileContent(file) == <<"<">> \o file \o <<">">>

\* an open whose Close is not deferred
DeferDropped(deferred, f) == deferred

\* defer f.Close()
Defer(deferred, f) == deferred \cup {f}

\* the deferred calls run when the function returns
RunDeferred(open, deferred) == open \ deferred

(***************************************************************************)
(* The inputs: request headers, and the directory of error pages.          *)
(***************************************************************************)
Abc == <<"a","b","c">>
Xx(d) == <<d, "x", "x">>
Comma == <<",", " ">>

CodeHeaders ==
    {Empty, Abc, Itoa(404), Itoa(503), Itoa(0), Itoa(99), Itoa(600),
     Itoa(1000), Itoa(0 - 5)}

FormatHeaders == {Empty, TextHtml, AppJson, FooBar, TextHtmlUtf8}

\* the entries an enumerated Accept header is made of
AcceptTokens ==
    {TextHtml, AppJson, ImagePng,
     TextHtml \o QMarker \o <<"0",".","8">>,
     AppJson \o QMarker \o <<"0",".","9">>,
     TextHtml \o QMarker \o <<"x">>}

RECURSIVE AcceptOfLen(_)
AcceptOfLen(n) ==
    IF n = 0 THEN {Empty}
    ELSE IF n = 1 THEN AcceptTokens
    ELSE {h \o Comma \o t : h \in AcceptOfLen(n - 1), t \in AcceptTokens}

AcceptHeaders == UNION {AcceptOfLen(n) : n \in 0..MaxTokens}

\* the Accept headers sent along with an X-Format header
FewAccepts ==
    {Empty, AppJson,
     TextHtml \o QMarker \o <<"0",".","8">> \o Comma
        \o AppJson \o QMarker \o <<"0",".","9">>}

FewCodes == {Itoa(503)}

\* the requests of Spec: every code with a few Accept headers, every Accept
\* header with one code, both protocols for the requests without X-Format
\* and Accept
Requests ==
    {q \in [xFormat : FormatHeaders, accept : AcceptHeaders,
            xCode : CodeHeaders, proto : Protos] :
        /\ q.xFormat = Empty \/ q.accept \in FewAccepts
        /\ q.accept \in FewAccepts \/ q.xCode \in FewCodes
        /\ q.proto = "1.1" \/ (q.xFormat = Empty /\ q.accept = Empty)}

\* the requests of SpecConc
ConcRequests ==
    [xFormat : {Empty}, accept : {Empty},
     xCode : {Itoa(404), Itoa(503), Itoa(0)}, proto : Protos]

\* the directories of error pages (ERROR_FILES_PATH)
Dirs ==
    {{},
     {Xx("5") \o DotHtml},
     {Itoa(404) \o DotHtml, Xx("4") \o DotHtml, Itoa(404) \o DotJson,
      Itoa(503) \o DotJson, Xx("5") \o DotJson},
     {Itoa(503) \o DotHtml, Xx("5") \o DotHtml, Xx("1") \o DotHtml,
      Xx("4") \o DotJson}}

\* the directories of SpecConc
ConcDirs ==
    {{},
     {Xx("5") \o DotHtml},
     {Itoa(404) \o DotHtml, Xx("5") \o DotHtml}}

(***************************************************************************)
(* The state of one request slot.                                          *)
(***************************************************************************)
Idle ==
    [pc |-> "idle", xFormat |-> Empty, accept |-> Empty, xCode |-> Empty,
     proto |-> "1.1", format |-> Empty, ext |-> Empty, code |-> 0,
     file |-> Empty, exact |-> Empty, w |-> NewResponseWriter,
     open |-> {}, deferred |-> {}, outcome |-> "none"]

Slots == DOMAIN req

InitEnv ==
    /\ build \in {"rootfs", "unnamed"}
    /\ defaultFormat \in {TextHtml, AppJson}
    /\ defaultExt = ExtensionsByType(defaultFormat)[1]
    /\ requestCount = [p \in Protos |-> 0]
    /\ requestDuration = [p \in Protos |-> 0]
    /\ completed = [p \in Protos |-> 0]
    /\ arrived = 0

Init ==
    /\ InitEnv
    /\ debug \in BOOLEAN
    /\ files \in Dirs
    /\ req = [r \in 1..1 |-> Idle]

InitConc ==
    /\ InitEnv
    /\ debug \in BOOLEAN
    /\ defaultFormat = TextHtml
    /\ files \in ConcDirs
    /\ req = [r \in 1..MaxInFlight |-> Idle]

(***************************************************************************)
(* The actions: the steps of one invocation of the handler.                *)
(***************************************************************************)
\* the server dispatches a request to the handler
Receive(r, requests) ==
    /\ req[r].pc = "idle"
    /\ arrived < MaxRequests
    /\ \E q \in requests :
        req' = [req EXCEPT ![r] =
                    [Idle EXCEPT !.pc = "format", !.xFormat = q.xFormat,
                                 !.accept = q.accept, !.xCode = q.xCode,
                                 !.proto = q.proto]]
    /\ arrived' = arrived + 1
    /\ UNCHANGED <<env, requestCount, requestDuration, completed>>

\* the header echo of DEBUG, the format and the extension, Content-Type.
\* part_000 declares ext twice (ext := defaultExt, then var ext string); every
\* branch assigns the second one, which is the one the paths are built from.
ResolveFormat(r) ==
    /\ req[r].pc = "format"
    /\ \E res \in
            IF build = "rootfs"
            THEN {RootfsFormat(req[r].xFormat, defaultFormat, defaultExt)}
            ELSE IF req[r].xFormat = Empty
                 THEN {selectFormat(mediaTypes, defaultFormat) :
                          mediaTypes \in parseAcceptHeader(req[r].accept)}
                 ELSE {ExplicitFormat(req[r].xFormat, defaultFormat)} :
        LET w0 == IF debug THEN HeaderSet(req[r].w, Empty) ELSE req[r].w
        IN  req' = [req EXCEPT ![r].format = res.format,
                               ![r].ext = res.ext,
                               ![r].w = HeaderSet(w0, res.format),
                               ![r].pc = "code"]
    /\ UNCHANGED <<env, requestCount, requestDuration, completed, arrived>>

\* the status code and WriteHeader, which panics on an invalid code
ResolveCode(r) ==
    /\ req[r].pc = "code"
    /\ LET code == IF build = "rootfs" THEN RootfsCode(req[r].xCode)
                   ELSE UnnamedCode(req[r].xCode)
       IN  IF ValidWriteHeaderCode(code)
           THEN req' = [req EXCEPT ![r].code = code,
                                   ![r].w = WriteHeader(req[r].w, code),
                                   ![r].pc = "open"]
           ELSE req' = [req EXCEPT ![r].code = code,
                                   ![r].outcome = "panic",
                                   ![r].pc = "panicked"]
    /\ UNCHANGED <<env, requestCount, requestDuration, completed, arrived>>

\* the extension is normalised, the exact-code file is opened
OpenExact(r) ==
    /\ req[r].pc = "open"
    /\ LET ext == NormalizeExt(req[r].ext)
           file == ExactFile(req[r].code, ext)
       IN  IF file \in files
           THEN req' = [req EXCEPT ![r].ext = ext, ![r].file = file,
                                   ![r].exact = file,
                                   ![r].open = @ \cup {file},
                                   ![r].deferred = Defer(@, file),
                                   ![r].pc = "copy"]
           ELSE req' = [req EXCEPT ![r].ext = ext, ![r].file = file,
                                   ![r].exact = file,
                                   ![r].pc = "fallback"]
    /\ UNCHANGED <<env, requestCount, requestDuration, completed, arrived>>

\* io.Copy of the exact-code file; serveFile of main.go returns here
CopyExact(r) ==
    /\ req[r].pc = "copy"
    /\ req' = [req EXCEPT ![r].w = Write(@, FileContent(req[r].file)),
                          ![r].outcome = "exact",
                          ![r].open = IF build = "rootfs"
                                      THEN RunDeferred(@, req[r].deferred)
                                      ELSE @,
                          ![r].pc = "metrics"]
    /\ UNCHANGED <<env, requestCount, requestDuration, completed, arrived>>

\* the class-wildcard file is opened
OpenWildcard(r) ==
    /\ req[r].pc = "fallback"
    /\ LET file == WildcardFile(req[r].code, req[r].ext)
       IN  IF file \in files
           THEN req' = [req EXCEPT ![r].file = file,
                                   ![r].open = @ \cup {file},
                                   ![r].deferred = Defer(@, file),
                                   ![r].pc = "copyxx"]
           ELSE req' = [req EXCEPT ![r].file = file, ![r].pc = "notfound"]
    /\ UNCHANGED <<env, requestCount, requestDuration, completed, arrived>>

\* io.Copy of the class-wildcard file; part_000 returns after it, serveFile
\* of main.go returns to the handler
CopyWildcard(r) ==
    /\ req[r].pc = "copyxx"
    /\ req' = [req EXCEPT ![r].w = Write(@, FileContent(req[r].file)),
                          ![r].outcome = "wildcard",
                          ![r].open = RunDeferred(@, req[r].deferred),
                          ![r].pc = IF build = "rootfs" THEN "metrics"
                                    ELSE "done"]
    /\ completed' = IF build = "rootfs" THEN completed
                    ELSE [completed EXCEPT ![req[r].proto] = @ + 1]
    /\ UNCHANGED <<env, requestCount, requestDuration, arrived>>

\* http.NotFound; part_000 returns after it
NotFoundStep(r) ==
    /\ req[r].pc = "notfound"
    /\ req' = [req EXCEPT ![r].w = NotFound(@),
                          ![r].outcome = "notfound",
                          ![r].pc = IF build = "rootfs" THEN "metrics"
                                    ELSE "done"]
    /\ completed' = IF build = "rootfs" THEN completed
                    ELSE [completed EXCEPT ![req[r].proto] = @ + 1]
    /\ UNCHANGED <<env, requestCount, requestDuration, arrived>>

\* the counter and the histogram of the protocol, then the handler returns
RecordMetrics(r) ==
    /\ req[r].pc = "metrics"
    /\ requestCount' = [requestCount EXCEPT ![req[r].proto] = @ + 1]
    /\ requestDuration' = [requestDuration EXCEPT ![req[r].proto] = @ + 1]
    /\ req' = [req EXCEPT ![r].open = RunDeferred(@, req[r].deferred),
                          ![r].pc = "done"]
    /\ completed' = [completed EXCEPT ![req[r].proto] = @ + 1]
    /\ UNCHANGED <<env, arrived>>

\* the server is done with the request (or with the panic of its handler)
Finish(r) ==
    /\ req[r].pc \in {"done", "panicked"}
    /\ req' = [req EXCEPT ![r] = Idle]
    /\ UNCHANGED <<env, requestCount, requestDuration, completed, arrived>>

Handle ==
    \/ \E r \in Slots : ResolveFormat(r)
    \/ \E r \in Slots : ResolveCode(r)
    \/ \E r \in Slots : OpenExact(r)
    \/ \E r \in Slots : CopyExact(r)
    \/ \E r \in Slots : OpenWildcard(r)
    \/ \E r \in Slots : CopyWildcard(r)
    \/ \E r \in Slots : NotFoundStep(r)
    \/ \E r \in Slots : RecordMetrics(r)
    \/ \E r \in Slots : Finish(r)

\* one request at a time, every input
Next ==
    \/ \E r \in Slots : Receive(r, Requests)
    \/ Handle

Spec == Init /\ [][Next]_vars

\* concurrent requests
NextConc ==
    \/ \E r \in Slots : Receive(r, ConcRequests)
    \/ Handle

SpecConc == InitConc /\ [][NextConc]_vars

(***************************************************************************)
(* Vocabulary of the properties.                                           *)
(***************************************************************************)
\* the handler has resolved the format (ResolveFormat has acted)
FormatResolved(r) == req[r].pc \notin {"idle", "format"}

\* the handler has resolved the status code (ResolveCode has acted)
CodeResolved(r) == req[r].pc \notin {"idle", "format", "code"}

\* the handler has built the exact-code path (OpenExact has acted)
ExactBuilt(r) == req[r].exact # Empty

\* the handler has built the class-wildcard path (OpenWildcard has acted)
WildcardBuilt(r) ==
    \/ req[r].pc \in {"copyxx", "notfound"}
    \/ req[r].outcome \in {"wildcard", "notfound"}

\* the handling of the request has ended, by a return or by a panic
Ended(r) == req[r].pc \in {"done", "panicked"}

\* no request is being handled
Quiescent == \A r \in Slots : req[r].pc \in {"idle", "done", "panicked"}

\* the extension as the paths carry it: dotted, .htm written .html
PathExt(ext) ==
    IF ext = DotHtm THEN DotHtml
    ELSE IF ext # Empty /\ Head(ext) = "." THEN ext ELSE <<".">> \o ext

\* the part of a path after its first n characters
After(path, n) == SubSeq(path, n + 1, Len(path))

\* the decimal reading of a header value: an optional sign, then digits
IsDecimal(s) ==
    LET body == IF s # Empty /\ s[1] \in {"+", "-"} THEN After(s, 1) ELSE s
    IN  body # Empty /\ \A i \in 1..Len(body) : IsDigit(body[i])

RECURSIVE Magnitude(_)
Magnitude(s) ==
    IF s = Empty THEN 0
    ELSE 10 * Magnitude(SubSeq(s, 1, Len(s) - 1)) + DigitVal(s[Len(s)])

DecimalValue(s) ==
    IF s[1] = "-" THEN 0 - Magnitude(After(s, 1))
    ELSE IF s[1] = "+" THEN Magnitude(After(s, 1))
    ELSE Magnitude(s)

\* the Accept candidates in the order of a stable sort by descending
\* quality: an entry comes before another one when its quality is higher,
\* or equal and its position in the header earlier
StableOrder(pairs) ==
    LET n == Len(pairs)
        p == CHOOSE p \in Orderings(n) :
                \A i, j \in 1..n :
                    i < j => \/ pairs[p[i]].quality > pairs[p[j]].quality
                             \/ /\ pairs[p[i]].quality = pairs[p[j]].quality
                                /\ p[i] < p[j]
    IN  [i \in 1..n |-> pairs[p[i]].mediaType]

\* the first supported media type of a list of candidates, or the default
FirstSupported(mediaTypes, default) ==
    LET hits == {i \in 1..Len(mediaTypes) :
                    mediaTypes[i] \in {AppJson, TextHtml}}
    IN  IF hits = {} THEN default
        ELSE mediaTypes[CHOOSE i \in hits : \A j \in hits : i <= j]

(***************************************************************************)
(* The properties.                                                         *)
(***************************************************************************)

\* C1: for every resolved code, extension and directory, a request is served
\* from the exact-code file when that file can be opened, and from the
\* class-wildcard file, with the resolved code as status, when only that one
\* can be opened; the class-wildcard file is never opened while the
\* exact-code file is openable.
C1_ExactThenWildcard ==
    \A r \in Slots :
        LET exact == ExactFile(req[r].code, PathExt(req[r].ext))
            wild == WildcardFile(req[r].code, PathExt(req[r].ext))
        IN  /\ req[r].pc = "copyxx" => exact \notin files
            /\ Ended(r) /\ exact \in files =>
                    /\ req[r].w.body = FileContent(exact)
                    /\ req[r].w.status = req[r].code
            /\ Ended(r) /\ exact \notin files /\ wild \in files =>
                    /\ req[r].w.body = FileContent(wild)
                    /\ req[r].w.status = req[r].code

\* The policy of C1 for the invocations that return: it fails only where
\* WriteHeader panics on the code.
ExactThenWildcardOnReturn ==
    \A r \in Slots :
        LET exact == ExactFile(req[r].code, PathExt(req[r].ext))
            wild == WildcardFile(req[r].code, PathExt(req[r].ext))
        IN  /\ req[r].pc = "copyxx" => exact \notin files
            /\ req[r].pc = "done" /\ exact \in files =>
                    /\ req[r].w.body = FileContent(exact)
                    /\ req[r].w.status = req[r].code
            /\ req[r].pc = "done" /\ exact \notin files /\ wild \in files =>
                    /\ req[r].w.body = FileContent(wild)
                    /\ req[r].w.status = req[r].code

\* C2: for a code in 100..599, when neither file can be opened the client
\* receives the standard not-found response: status 404 and the plain
\* not-found body.
C2_NotFoundIsStandard404 ==
    \A r \in Slots :
        /\ req[r].outcome = "notfound"
        /\ req[r].code \in 100..599
        => /\ req[r].w.status = 404
           /\ req[r].w.body = NotFoundBody

\* C3: when no request is in flight, the counter and the histogram of each
\* protocol hold the number of completed requests of that protocol,
\* whichever way each request ended.
C3_EveryRequestCountedOnce ==
    Quiescent =>
        \A p \in Protos : /\ requestCount[p] = completed[p]
                          /\ requestDuration[p] = completed[p]

\* C4: with a non-empty X-Format header the Accept header has no influence:
\* the media type is the X-Format value and the extension the one looked up
\* for it when the lookup succeeds, and both are those of the default format
\* when it fails.
C4_ExplicitFormatIgnoresAccept ==
    \A r \in Slots :
        FormatResolved(r) /\ req[r].xFormat # Empty =>
            LET found == ExtensionsByType(req[r].xFormat)
            IN  /\ req[r].format =
                      IF found # << >> THEN req[r].xFormat ELSE defaultFormat
                /\ ~ExactBuilt(r) =>
                      req[r].ext =
                          IF found # << >> THEN found[1] ELSE defaultExt
                /\ ExactBuilt(r) =>
                      req[r].ext =
                          PathExt(IF found # << >> THEN found[1]
                                  ELSE defaultExt)

\* an unknown X-Format next to an Accept header naming application/json:
\* the Accept-aware handler resolved the default text/html
C4_Witness ==
    \E r \in Slots :
        /\ build = "unnamed" /\ defaultFormat = TextHtml
        /\ req[r].xFormat = FooBar /\ req[r].accept = AppJson
        /\ req[r].pc = "code"
        /\ req[r].format = TextHtml /\ req[r].ext = DotHtm

\* C5: without an X-Format header the Accept-aware handler resolves the
\* first of application/json and text/html among the Accept candidates
\* ordered by descending quality, equal qualities in input order, and the
\* default format when no candidate is supported.
C5_AcceptStableQualityOrder ==
    \A r \in Slots :
        build = "unnamed" /\ FormatResolved(r) /\ req[r].xFormat = Empty =>
            req[r].format =
                FirstSupported(StableOrder(TypeQualityPairs(req[r].accept)),
                               defaultFormat)

\* The part of C5 that does not depend on the order of equal qualities: the
\* resolved type is supported or the default, and no supported candidate of
\* strictly higher quality was passed over.
AcceptHigherQualityWins ==
    \A r \in Slots :
        build = "unnamed" /\ FormatResolved(r) /\ req[r].xFormat = Empty =>
            LET pairs == TypeQualityPairs(req[r].accept)
                supported == {i \in 1..Len(pairs) :
                                 pairs[i].mediaType \in {AppJson, TextHtml}}
            IN  IF supported = {} THEN req[r].format = defaultFormat
                ELSE \E i \in supported :
                        /\ req[r].format = pairs[i].mediaType
                        /\ \A j \in supported :
                              pairs[j].quality <= pairs[i].quality

\* C6: the effective status code is the decimal value of X-Code when it
\* parses and 404 otherwise; in the latter case the status sent and both
\* file paths use 404.
C6_CodeDefaultsTo404 ==
    \A r \in Slots :
        CodeResolved(r) =>
            IF IsDecimal(req[r].xCode)
            THEN req[r].code = DecimalValue(req[r].xCode)
            ELSE /\ req[r].code = 404
                 /\ req[r].w.wroteHeader /\ req[r].w.status = 404
                 /\ ExactBuilt(r) =>
                        req[r].exact = <<"4","0","4">> \o req[r].ext
                 /\ WildcardBuilt(r) =>
                        req[r].file = <<"4","x","x">> \o req[r].ext

\* X-Code: abc was served from the 4xx file with status 404
C6_Witness ==
    \E r \in Slots :
        /\ req[r].xCode = Abc
        /\ req[r].outcome = "wildcard"
        /\ req[r].w.status = 404
        /\ req[r].file = Xx("4") \o DotJson

\* C7: whichever branch resolved it, the extension of the exact-code path
\* and of the class-wildcard path begins with a dot and is never .htm.
C7_ExtensionNormalized ==
    \A r \in Slots :
        /\ ExactBuilt(r) =>
              LET e == After(req[r].exact, Len(Itoa(req[r].code)))
              IN  /\ req[r].exact = Itoa(req[r].code) \o e
                  /\ e # Empty /\ e[1] = "."
                  /\ e # DotHtm
        /\ WildcardBuilt(r) =>
              LET e == After(req[r].file, 3)
              IN  /\ e # Empty /\ e[1] = "."
                  /\ e # DotHtm
                  /\ e = After(req[r].exact, Len(Itoa(req[r].code)))

\* text/html negotiated from the Accept header, whose first extension is
\* .htm, was served from 5xx.html
C7_Witness ==
    \E r \in Slots :
        /\ build = "unnamed"
        /\ req[r].xFormat = Empty /\ req[r].accept # Empty
        /\ req[r].format = TextHtml
        /\ req[r].outcome = "wildcard"
        /\ req[r].exact = Itoa(503) \o DotHtml
        /\ req[r].file = Xx("5") \o DotHtml

\* C8: Content-Type and the status line carry the resolved media type and
\* code before the first body byte, and after the status line was written no
\* step sets the Content-Type or the status again.
C8_HeadersFinalBeforeBody ==
    \A r \in Slots :
        /\ req[r].w.body # Empty =>
              /\ req[r].w.wroteHeader
              /\ req[r].w.status = req[r].code
              /\ req[r].w.sent = req[r].format
        /\ req[r].w.wroteHeader =>
              /\ req[r].w.header = req[r].format
              /\ req[r].w.superfluous = 0

\* C9: a handle is open only while its file is being served: a failed open
\* leaves none, and when the handler has returned every handle it opened is
\* closed, so that no handle is open when no request is in flight.
C9_HandlesClosed ==
    /\ \A r \in Slots :
          /\ req[r].pc \in {"fallback", "notfound"} => req[r].open = {}
          /\ req[r].pc \in {"idle", "done", "panicked"} => req[r].open = {}
          /\ req[r].open \subseteq (files \cap {req[r].file})
    /\ Quiescent => UNION {req[r].open : r \in Slots} = {}

\* two requests have returned, one served from its exact-code file and one
\* from the class-wildcard file after its exact open failed, none is running
C9_Witness ==
    /\ Quiescent
    /\ \E r1, r2 \in Slots :
          /\ req[r1].pc = "done" /\ req[r1].outcome = "exact"
          /\ req[r2].pc = "done" /\ req[r2].outcome = "wildcard"
          /\ req[r1].open = {} /\ req[r2].open = {}

\* C10: for every X-Code value the status code written and used for the
\* paths is in 100..599, and the class-wildcard path starts with a decimal
\* digit of it.
C10_CodeInHttpRange ==
    \A r \in Slots :
        /\ req[r].w.wroteHeader => req[r].w.status \in 100..599
        /\ CodeResolved(r) =>
              /\ req[r].code \in 100..599
              /\ IsDigit(Itoa(req[r].code)[1])
        /\ WildcardBuilt(r) => IsDigit(req[r].file[1])

=============================================================================
